---- MODULE Spec2Model ----
(***************************************************************************)
(* Model of prompter_service.py: one FastAPI route, POST /refine, whose    *)
(* handler refine_prompt forwards the query to the chat-completion API     *)
(* with a fixed system prompt, json.loads the reply content and maps two   *)
(* fields into PrompterResponse; any Exception becomes {"error": str(e)}.  *)
(* The server is one uvicorn event loop; the upstream service and the      *)
(* HTTP clients are the environment.                                       *)
(***************************************************************************)
EXTENDS Integers, Sequences, FiniteSets, TLC

\* Number of requests the environment sends (each request id is used once).
NumReq == 2

Req == 1..NumReq

\* No task holds the event loop.
NoReq == 0

(***************************************************************************)
(* Upstream content as JSON text: a sequence of lexical tokens.  A token   *)
(* is a string literal (q = TRUE, s its text) or a bare lexeme (q = FALSE).*)
(***************************************************************************)
S(text) == [q |-> TRUE, s |-> text]

P(lexeme) == [q |-> FALSE, s |-> lexeme]

(***************************************************************************)
(* Python values produced by json.loads.  t is the Python type; a str      *)
(* carries its text in s, an int its decimal digits in s, a dict its       *)
(* members in items (key/value pairs in document order), a list its        *)
(* elements in items.  JSON null is Python None.                           *)
(***************************************************************************)
PyNone == [t |-> "NoneType", s |-> "", items |-> <<>>]

PyStr(text) == [t |-> "str", s |-> text, items |-> <<>>]

PyInt(digits) == [t |-> "int", s |-> digits, items |-> <<>>]

PyDict(members) == [t |-> "dict", s |-> "", items |-> members]

PyList(elems) == [t |-> "list", s |-> "", items |-> elems]

Digits == {"1", "7"}

ParseFail == [ok |-> FALSE, v |-> PyNone, next |-> 0]

ParseOk(value, nxt) == [ok |-> TRUE, v |-> value, next |-> nxt]

IsLexeme(toks, i, lexeme) == i <= Len(toks) /\ toks[i] = P(lexeme)

RECURSIVE ParseValue(_, _)
RECURSIVE ParseMembers(_, _, _)
RECURSIVE ParseElements(_, _, _)

\* One JSON value starting at token i (the decoder's scan_once).
ParseValue(toks, i) ==
    IF i > Len(toks) THEN ParseFail
    ELSE LET tok == toks[i] IN
         IF tok.q THEN ParseOk(PyStr(tok.s), i + 1)
         ELSE IF tok.s = "null" THEN ParseOk(PyNone, i + 1)
         ELSE IF tok.s \in Digits THEN ParseOk(PyInt(tok.s), i + 1)
         ELSE IF tok.s = "{" THEN
              IF IsLexeme(toks, i + 1, "}") THEN ParseOk(PyDict(<<>>), i + 2)
              ELSE ParseMembers(toks, i + 1, <<>>)
         ELSE IF tok.s = "[" THEN
              IF IsLexeme(toks, i + 1, "]") THEN ParseOk(PyList(<<>>), i + 2)
              ELSE ParseElements(toks, i + 1, <<>>)
         ELSE ParseFail

\* The members of an object after "{": "key" : value (, "key" : value)* }
ParseMembers(toks, i, acc) ==
    IF ~(i <= Len(toks) /\ toks[i].q /\ IsLexeme(toks, i + 1, ":")) THEN ParseFail
    ELSE LET r == ParseValue(toks, i + 2) IN
         IF ~r.ok THEN ParseFail
         ELSE LET acc2 == Append(acc, [k |-> toks[i].s, v |-> r.v]) IN
              IF IsLexeme(toks, r.next, "}") THEN ParseOk(PyDict(acc2), r.next + 1)
              ELSE IF IsLexeme(toks, r.next, ",") THEN ParseMembers(toks, r.next + 1, acc2)
              ELSE ParseFail

\* The elements of an array after "[": value (, value)* ]
ParseElements(toks, i, acc) ==
    LET r == ParseValue(toks, i) IN
    IF ~r.ok THEN ParseFail
    ELSE LET acc2 == Append(acc, r.v) IN
         IF IsLexeme(toks, r.next, "]") THEN ParseOk(PyList(acc2), r.next + 1)
         ELSE IF IsLexeme(toks, r.next, ",") THEN ParseElements(toks, r.next + 1, acc2)
         ELSE ParseFail

\* The result of evaluating a Python expression: a value, or a raised
\* exception with its class and str(e).
Value(val) == [exc |-> "", msg |-> "", v |-> val]

Raise(cls, text) == [exc |-> cls, msg |-> text, v |-> PyNone]

\* message.content of a completion that carries no text.
NoContent == <<P("None")>>

\* json.loads(content): the whole text must be one JSON value.
json_loads(content) ==
    IF content = NoContent
    THEN Raise("TypeError", "the JSON object must be str, bytes or bytearray, not NoneType")
    ELSE LET r == ParseValue(content, 1) IN
         IF ~r.ok THEN Raise("JSONDecodeError", "Expecting value")
         ELSE IF r.next /= Len(content) + 1 THEN Raise("JSONDecodeError", "Extra data")
         ELSE Value(r.v)

(***************************************************************************)
(* The contents the completion API can reply with.                         *)
(***************************************************************************)
EngKey == "enhanced_eng_prompt"

KorKey == "back_translation_kor"

EngText == "Plan a 5-day trip"

KorText == "5-day trip plan (KOR)"

Member(key, opt, text) ==
    CASE opt = "absent" -> <<>>
      [] opt = "text" -> <<S(key), P(":"), S(text)>>
      [] opt = "null" -> <<S(key), P(":"), P("null")>>
      [] opt = "num" -> <<S(key), P(":"), P("7")>>

Join(a, b) ==
    IF a = <<>> THEN b ELSE IF b = <<>> THEN a ELSE a \o <<P(",")>> \o b

ObjContent(eo, bo) ==
    <<P("{")>> \o Join(Member(EngKey, eo, EngText), Member(KorKey, bo, KorText)) \o <<P("}")>>

ObjCases == {<<"text", "text">>, <<"text", "absent">>, <<"absent", "text">>,
             <<"null", "text">>, <<"text", "num">>}

\* Both fields, in the other order, after an unrelated member and a
\* duplicate of the first key.
Reordered ==
    <<P("{")>> \o Member(KorKey, "text", KorText) \o <<P(",")>>
      \o Member("note", "text", "x") \o <<P(",")>>
      \o Member(EngKey, "text", "old") \o <<P(",")>>
      \o Member(EngKey, "text", EngText) \o <<P("}")>>

NonObjects == {<<P("[")>> \o ObjContent("text", "text") \o <<P("]")>>,
               <<P("1")>>, <<P("null")>>}

Malformed == {<<P("Sorry")>>,
              <<P("{")>> \o Member(EngKey, "text", EngText) \o <<P(","), P("}")>>}

Contents ==
    {ObjContent(c[1], c[2]) : c \in ObjCases} \cup {Reordered}
      \cup NonObjects \cup Malformed \cup {NoContent}

(***************************************************************************)
(* The program's constants and models.                                     *)
(***************************************************************************)
PROMPTER_SYSTEM_PROMPT == "You are 'Prompter', an expert prompt engineer. ... return ONLY a JSON object"

\* A PrompterResponse instance.
PrompterResponse(eng, kor) == [enhanced_eng_prompt |-> eng, back_translation_kor |-> kor]

\* Mutant of dict_get: a missing key defaults to the empty text.
dict_get_default(d, key) ==
    LET hits == {i \in 1..Len(d.items) : d.items[i].k = key} IN
    IF hits = {} THEN PyStr("")
    ELSE d.items[CHOOSE i \in hits : \A j \in hits : j <= i].v

\* d.get(key) of a dict built by json.loads: the last member with that key
\* wins, a missing key gives None.
dict_get(d, key) ==
    LET hits == {i \in 1..Len(d.items) : d.items[i].k = key} IN
    IF hits = {} THEN PyNone
    ELSE d.items[CHOOSE i \in hits : \A j \in hits : j <= i].v

\* response_data.get(key): only a dict has the attribute.
attr_get(data, key) ==
    IF data.t = "dict" THEN Value(dict_get(data, key))
    ELSE Raise("AttributeError",
               CASE data.t = "list" -> "'list' object has no attribute 'get'"
                 [] data.t = "str" -> "'str' object has no attribute 'get'"
                 [] data.t = "int" -> "'int' object has no attribute 'get'"
                 [] OTHER -> "'NoneType' object has no attribute 'get'")

\* Mutant of str_field: the field is Optional, None passes as an empty value.
str_field_optional(val, lax) ==
    IF val.t = "str" THEN [ok |-> TRUE, s |-> val.s]
    ELSE IF val.t = "int" /\ lax THEN [ok |-> TRUE, s |-> val.s]
    ELSE IF val.t = "NoneType" THEN [ok |-> TRUE, s |-> ""]
    ELSE [ok |-> FALSE, s |-> ""]

\* Validation of one `str` field of a pydantic model.  A str passes
\* unchanged and None is rejected by every pydantic; an int is rejected by
\* pydantic 2 and turned into its decimal text by pydantic 1 (lax).
str_field(val, lax) ==
    IF val.t = "str" THEN [ok |-> TRUE, s |-> val.s]
    ELSE IF val.t = "int" /\ lax THEN [ok |-> TRUE, s |-> val.s]
    ELSE [ok |-> FALSE, s |-> ""]

\* Mutant of NewPrompterResponse: the two keyword arguments are crossed.
NewPrompterResponseCrossed(eng, kor, lax) ==
    LET e == str_field(eng, lax)
        k == str_field(kor, lax)
    IN IF e.ok /\ k.ok THEN Value(PrompterResponse(k.s, e.s))
       ELSE IF e.ok \/ k.ok
            THEN Raise("ValidationError", "1 validation error for PrompterResponse")
            ELSE Raise("ValidationError", "2 validation errors for PrompterResponse")

\* PrompterResponse(enhanced_eng_prompt=eng, back_translation_kor=kor)
NewPrompterResponse(eng, kor, lax) ==
    LET e == str_field(eng, lax)
        k == str_field(kor, lax)
    IN IF e.ok /\ k.ok THEN Value(PrompterResponse(e.s, k.s))
       ELSE IF e.ok \/ k.ok
            THEN Raise("ValidationError", "1 validation error for PrompterResponse")
            ELSE Raise("ValidationError", "2 validation errors for PrompterResponse")

\* Mutant of CreateArgs: an empty query is replaced by a placeholder.
CreateArgsPlaceholder(user_query) ==
    [model |-> "gpt-4o-mini",
     response_format |-> [type |-> "json_object"],
     messages |-> <<[role |-> "system", content |-> PROMPTER_SYSTEM_PROMPT],
                    [role |-> "user",
                     content |-> IF user_query = "" THEN "(empty)" ELSE user_query]>>,
     temperature |-> "0.3"]

\* The arguments of client.chat.completions.create for a query.
CreateArgs(user_query) ==
    [model |-> "gpt-4o-mini",
     response_format |-> [type |-> "json_object"],
     messages |-> <<[role |-> "system", content |-> PROMPTER_SYSTEM_PROMPT],
                    [role |-> "user", content |-> user_query]>>,
     temperature |-> "0.3"]

\* The body of the try block after the call has ended with `completion`
\* (a reply's content, or the exception the call raised).
TryBody(completion, lax) ==
    IF completion.exc /= "" THEN completion
    ELSE LET response_data == json_loads(completion.v) IN
         IF response_data.exc /= "" THEN response_data
         ELSE LET eng == attr_get(response_data.v, EngKey) IN
              IF eng.exc /= "" THEN eng
              ELSE NewPrompterResponse(eng.v, dict_get(response_data.v, KorKey), lax)

\* Mutant of ErrorPayload: the payload also names the exception's class.
ErrorPayloadTyped(e) == [error |-> e.msg, type |-> e.exc]

\* except Exception as e: return {"error": str(e)}
ErrorPayload(e) == [error |-> e.msg]

\* What refine_prompt returns once the call has ended with `completion`.
refine_prompt(completion, lax) ==
    LET r == TryBody(completion, lax) IN
    IF r.exc /= "" THEN ErrorPayload(r) ELSE r.v

\* Mutant of CallsAtReturn: a failed attempt is tried once more.
CallsAtReturnRetry(calls, args, result) ==
    IF "error" \in DOMAIN result THEN Append(calls, args) ELSE calls

\* The calls on record when the handler returns `result`: neither the except
\* block nor the rest of the try block calls the API again.
CallsAtReturn(calls, args, result) == calls

\* Mutant of StepsAfterCall: the parse is attempted whatever the call did.
StepsAfterCallAlways(completion) == <<"parse", "respond">>

\* The steps the handler takes after the call has ended.
StepsAfterCall(completion) ==
    IF completion.exc /= "" THEN <<"respond">> ELSE <<"parse", "respond">>

\* FastAPI's response_model=PrompterResponse: the returned value is validated
\* against the model; a value lacking a required field is a
\* ResponseValidationError, which the server answers with 500.
serialize_response(content) ==
    IF {EngKey, KorKey} \subseteq DOMAIN content
    THEN [status |-> 200, body |-> PrompterResponse(content[EngKey], content[KorKey])]
    ELSE [status |-> 500, body |-> [text |-> "Internal Server Error"]]

(***************************************************************************)
(* The environment's inputs.                                               *)
(***************************************************************************)
Queries == {"", "plan a trip"}

\* How a call to the completion API ends: with a reply whose content is v,
\* or with an exception.
Reply(content) == [exc |-> "", msg |-> "", v |-> content]

CallError(cls, text) == [exc |-> cls, msg |-> text, v |-> <<>>]

UpstreamErrors == {CallError("APIConnectionError", "Connection error.")}

Pending == CallError("pending", "")

Outcomes == {Reply(c) : c \in Contents} \cup UpstreamErrors

\* refine_prompt over every way the call can end, evaluated once.
Returns == {<<o, lax, refine_prompt(o, lax)>> : o \in Outcomes, lax \in BOOLEAN}

Returned(outcome, lax) ==
    (CHOOSE e \in Returns : e[1] = outcome /\ e[2] = lax)[3]

(***************************************************************************)
(* State.                                                                  *)
(***************************************************************************)
VARIABLES
    client,     \* the module-level OpenAI client
    laxStr,     \* the installed pydantic turns numbers into text (pydantic 1)
    running,    \* the request whose handler holds the event loop, or NoReq
    pc,         \* per request: idle, arrived, waiting, returned, done
    query,      \* per request: request.user_query
    sent,       \* per request: the calls issued to the completion API
    upstream,   \* per request: how its call ended
    ret,        \* per request: what refine_prompt returned
    http,       \* per request: the HTTP responses sent to its caller
    steps       \* per request: the steps taken so far

vars == <<client, laxStr, running, pc, query, sent, upstream, ret, http, steps>>

NoReturn == [none |-> TRUE]

Init ==
    /\ client = [api_key |-> "OPENAI_API_KEY"]
    /\ laxStr \in BOOLEAN
    /\ running = NoReq
    /\ pc = [r \in Req |-> "idle"]
    /\ query = [r \in Req |-> ""]
    /\ sent = [r \in Req |-> <<>>]
    /\ upstream = [r \in Req |-> Pending]
    /\ ret = [r \in Req |-> NoReturn]
    /\ http = [r \in Req |-> <<>>]
    /\ steps = [r \in Req |-> <<>>]

\* A caller posts {"user_query": q} to /refine.
Arrive(r, q) ==
    /\ pc[r] = "idle"
    /\ pc' = [pc EXCEPT ![r] = "arrived"]
    /\ query' = [query EXCEPT ![r] = q]
    /\ UNCHANGED <<client, laxStr, running, sent, upstream, ret, http, steps>>

\* The event loop runs the handler for r: it builds the messages and calls
\* client.chat.completions.create.  The client is the synchronous one and the
\* call is not awaited, so the handler keeps the loop while the call lasts.
Start(r) ==
    /\ pc[r] = "arrived"
    /\ running = NoReq
    /\ running' = r
    /\ pc' = [pc EXCEPT ![r] = "waiting"]
    /\ sent' = [sent EXCEPT ![r] = Append(@, CreateArgs(query[r]))]
    /\ steps' = [steps EXCEPT ![r] = <<"accept", "call">>]
    /\ UNCHANGED <<client, laxStr, query, upstream, ret, http>>

\* The completion API answers with a reply whose content is c.
UpstreamReply(r, c) ==
    /\ pc[r] = "waiting"
    /\ pc' = [pc EXCEPT ![r] = "returned"]
    /\ upstream' = [upstream EXCEPT ![r] = Reply(c)]
    /\ UNCHANGED <<client, laxStr, running, query, sent, ret, http, steps>>

\* The call raises.
UpstreamRaise(r, e) ==
    /\ pc[r] = "waiting"
    /\ pc' = [pc EXCEPT ![r] = "returned"]
    /\ upstream' = [upstream EXCEPT ![r] = e]
    /\ UNCHANGED <<client, laxStr, running, query, sent, ret, http, steps>>

\* Mutant of Completion: the completion is kept in a module-level variable
\* shared by all requests (the first one stored is the one read).
CompletionShared(r) ==
    upstream[CHOOSE o \in Req : /\ upstream[o].exc /= "pending"
                                /\ \A u \in Req : upstream[u].exc /= "pending" => o <= u]

\* The completion the handler of r holds in its local variable.
Completion(r) == upstream[r]

\* The rest of the handler, and the framework sending the response.
Finish(r) ==
    /\ pc[r] = "returned"
    /\ running = r
    /\ ret' = [ret EXCEPT ![r] = Returned(Completion(r), laxStr)]
    /\ http' = [http EXCEPT ![r] = Append(@, serialize_response(ret'[r]))]
    /\ sent' = [sent EXCEPT ![r] = CallsAtReturn(@, CreateArgs(query[r]), ret'[r])]
    /\ steps' = [steps EXCEPT ![r] = @ \o StepsAfterCall(Completion(r))]
    /\ pc' = [pc EXCEPT ![r] = "done"]
    /\ running' = NoReq
    /\ UNCHANGED <<client, laxStr, query, upstream>>

Next ==
    \E r \in Req :
        \/ \E q \in Queries : Arrive(r, q)
        \/ Start(r)
        \/ \E c \in Contents : UpstreamReply(r, c)
        \/ \E e \in UpstreamErrors : UpstreamRaise(r, e)
        \/ Finish(r)

Spec == Init /\ [][Next]_vars

\* Once the call has ended the handler runs on: it is ordinary code on the
\* loop's thread.
FairSpec == Spec /\ \A r \in Req : WF_vars(Finish(r))

(***************************************************************************)
(* Properties.                                                             *)
(***************************************************************************)
Done(r) == pc[r] = "done"

Called(r) == pc[r] \in {"waiting", "returned", "done"}

Replied(r, contents) == upstream[r].exc = "" /\ upstream[r].v \in contents

IsError(payload) == DOMAIN payload = {"error"}

IsSuccess(payload) == DOMAIN payload = {EngKey, KorKey}

\* Replies that are JSON objects holding both fields as text.
BothText == {ObjContent("text", "text"), Reordered}

\* Replies that are JSON objects lacking exactly one of the two fields.
OneMissing == {ObjContent("text", "absent"), ObjContent("absent", "text")}

\* Valid JSON objects in which a field is missing or null.
MissingOrNull == OneMissing \cup {ObjContent("null", "text")}

\* Valid JSON object whose second field is the number 7.
NumberField == ObjContent("text", "num")

\* C1: when the reply is valid JSON holding both fields as text, the handler
\* returns exactly those two values, each under its own name, with no error
\* field, and the caller receives them with status 200.
C1_WellFormedReplyRelayed ==
    \A r \in Req :
        (Done(r) /\ Replied(r, BothText)) =>
            /\ ret[r] = PrompterResponse(EngText, KorText)
            /\ "error" \notin DOMAIN ret[r]
            /\ http[r] = <<[status |-> 200, body |-> PrompterResponse(EngText, KorText)]>>

C1_Witness ==
    \E r \in Req : Done(r) /\ upstream[r] = Reply(Reordered) /\ IsSuccess(ret[r])

\* C2 (as stated): a reply that is valid JSON lacking one field yields the
\* success shape, the present field kept and the missing one empty, and not
\* the error path.
C2_MissingFieldIsSuccess ==
    \A r \in Req :
        (Done(r) /\ Replied(r, OneMissing)) =>
            /\ "error" \notin DOMAIN ret[r]
            /\ {EngKey, KorKey} \cap DOMAIN ret[r] /= {}

\* C2 (amended): a reply that is valid JSON lacking one field does not make
\* refine_prompt raise, but it takes the error path: the handler returns the
\* payload whose only key is error (the validation error of the one missing
\* field), carrying neither success field.
C2_MissingFieldIsError ==
    \A r \in Req :
        (Done(r) /\ Replied(r, OneMissing)) =>
            ret[r] = [error |-> "1 validation error for PrompterResponse"]

C2_Witness ==
    \E r \in Req : Done(r) /\ Replied(r, OneMissing) /\ IsError(ret[r])

\* C3: when the reply's content is not valid JSON, the caller of /refine
\* receives the error object (a body whose key is error) as the response,
\* not a server fault.
C3_NonJsonYieldsErrorShape ==
    \A r \in Req :
        (Done(r) /\ Replied(r, Malformed)) =>
            /\ Len(http[r]) = 1
            /\ http[r][1].status = 200
            /\ IsError(http[r][1].body)

\* The failures of one invocation: the call raised, the content did not
\* parse, or the success response could not be built.
CallRaised(r) == upstream[r].exc \notin {"", "pending"}

ParseFailed(r) == Replied(r, Malformed \cup {NoContent})

BuildFailed(r) ==
    Replied(r, NonObjects \cup MissingOrNull \cup (IF laxStr THEN {} ELSE {NumberField}))

ParseErrors == {"Expecting value", "Extra data",
                "the JSON object must be str, bytes or bytearray, not NoneType"}

BuildErrors == {"'list' object has no attribute 'get'", "'str' object has no attribute 'get'",
                "'int' object has no attribute 'get'", "'NoneType' object has no attribute 'get'",
                "1 validation error for PrompterResponse",
                "2 validation errors for PrompterResponse"}

\* C4: every failure inside refine_prompt (call raised, parse failed,
\* response construction failed) ends in a returned payload whose only key is
\* error, holding the exception's description; every finished invocation has
\* returned a payload, so no exception left the handler.
C4_FailuresShareErrorShape ==
    \A r \in Req :
        Done(r) =>
            /\ IsError(ret[r]) \/ IsSuccess(ret[r])
            /\ CallRaised(r) => ret[r] = [error |-> upstream[r].msg]
            /\ ParseFailed(r) => IsError(ret[r]) /\ ret[r].error \in ParseErrors
            /\ BuildFailed(r) => IsError(ret[r]) /\ ret[r].error \in BuildErrors

C4_Witness ==
    \E a, b \in Req :
        /\ Done(a) /\ Done(b)
        /\ CallRaised(a)
        /\ ParseFailed(b) \/ BuildFailed(b)
        /\ IsError(ret[a]) /\ IsError(ret[b])

\* C5: an invocation has issued exactly one call from the moment it calls
\* the API on, whether it succeeds or fails, and none before; no response is
\* sent by an invocation that has not issued the call.
C5_ExactlyOneCall ==
    \A r \in Req :
        /\ Called(r) => Len(sent[r]) = 1
        /\ ~Called(r) => Len(sent[r]) = 0
        /\ Len(http[r]) > 0 => Len(sent[r]) = 1

C5_Witness ==
    \E a, b \in Req :
        /\ Done(a) /\ IsError(ret[a]) /\ Len(sent[a]) = 1
        /\ Done(b) /\ IsSuccess(ret[b]) /\ Len(sent[b]) = 1

\* C6: every call carries the system message with the fixed prompt followed
\* by the user message with the raw query (the empty one included), and the
\* same model, response format and temperature.
C6_CallArguments ==
    \A r \in Req : \A i \in 1..Len(sent[r]) :
        /\ sent[r][i].messages =
               <<[role |-> "system", content |-> PROMPTER_SYSTEM_PROMPT],
                 [role |-> "user", content |-> query[r]]>>
        /\ sent[r][i].model = "gpt-4o-mini"
        /\ sent[r][i].response_format = [type |-> "json_object"]
        /\ sent[r][i].temperature = "0.3"

C6_Witness ==
    \E a, b \in Req :
        /\ Len(sent[a]) = 1 /\ query[a] = ""
        /\ Len(sent[b]) = 1 /\ query[b] /= ""
        /\ sent[a][1].messages[1] = sent[b][1].messages[1]

\* A step that is not a step of request r leaves everything of r alone.
OthersLeaveAlone(r) ==
    pc'[r] = pc[r] =>
        /\ query'[r] = query[r] /\ sent'[r] = sent[r] /\ upstream'[r] = upstream[r]
        /\ ret'[r] = ret[r] /\ http'[r] = http[r] /\ steps'[r] = steps[r]

\* C7: a finished request's return value and response are those of its own
\* upstream outcome (two requests with the same outcome get the same
\* response, whatever their queries and whatever happened to the others), no
\* step of one request changes anything of another, and the shared client is
\* never written.
C7_RequestsIndependent ==
    /\ [](\A r \in Req : Done(r) =>
            /\ ret[r] = refine_prompt(upstream[r], laxStr)
            /\ http[r] = <<serialize_response(ret[r])>>
            /\ \A o \in Req : (Done(o) /\ upstream[o] = upstream[r]) => http[o] = http[r])
    /\ [][client' = client /\ \A r \in Req : OthersLeaveAlone(r)]_vars

C7_Witness ==
    \E a, b \in Req :
        /\ Done(a) /\ Done(b)
        /\ query[a] /= query[b]
        /\ upstream[a] /= upstream[b]
        /\ http[a] /= http[b]

\* C8: while one request waits for its upstream reply the handler has
\* yielded: a request that has arrived can be taken up during the wait.
C8_OthersProceedDuringWait ==
    \A r, o \in Req :
        (pc[r] = "waiting" /\ pc[o] = "arrived") => ENABLED Start(o)

StepsInOrder(r) ==
    /\ pc[r] \in {"idle", "arrived"} => steps[r] = <<>> /\ http[r] = <<>>
    /\ pc[r] \in {"waiting", "returned"} => steps[r] = <<"accept", "call">> /\ http[r] = <<>>
    /\ (Done(r) /\ CallRaised(r)) => steps[r] = <<"accept", "call", "respond">>
    /\ (Done(r) /\ ~CallRaised(r)) => steps[r] = <<"accept", "call", "parse", "respond">>
    /\ Done(r) => Len(http[r]) = 1

\* C10: a request whose upstream call has completed eventually has exactly
\* one response, and the steps are accept, call, parse, respond in that
\* order, the parse only after a reply and never when the call raised.
C10_OrderedAndResponds ==
    /\ [](\A r \in Req : StepsInOrder(r))
    /\ \A r \in Req : (pc[r] = "returned") ~> (Done(r) /\ Len(http[r]) = 1)

C10_Witness ==
    \E a, b \in Req :
        /\ Done(a) /\ CallRaised(a) /\ Len(http[a]) = 1
        /\ Done(b) /\ ~CallRaised(b) /\ Len(http[b]) = 1

====
